---- MODULE Spec2Model ----
(***************************************************************************)
(* Model of src/src/lib.rs: the Config value (the "Session"), the          *)
(* concurrent per-file analysis of Config::analyze_changes, and the        *)
(* interactive loop of run().                                              *)
(***************************************************************************)
EXTENDS Integers, Sequences, FiniteSets, TLC

(***************************************************************************)
(* Bounds and small value sets                                             *)
(***************************************************************************)
\* longest sequence get_file_diffs returns in the session loop
MaxFiles == 3
\* longest sequence compared in the two-execution specification
MaxFilesPair == 2

Backends == {"m1", "m2"}
GitRepos == {"r1", "r2"}
Paths == GitRepos \cup {"bad"}
Modes == {"commit", "changes", "contributor"}
FileDiffs == { [path |-> "a.txt", diff |-> "+1"], [path |-> "b.txt", diff |-> "+2"] }
Outcomes == {"ok", "fail"}

RECURSIVE SeqsUpTo(_, _)
SeqsUpTo(S, n) ==
    IF n = 0 THEN { <<>> }
    ELSE LET shorter == SeqsUpTo(S, n - 1)
         IN  shorter \cup { Append(s, x) : s \in { t \in shorter : Len(t) = n - 1 }, x \in S }

(***************************************************************************)
(* Result<T, Box<dyn Error>>                                               *)
(***************************************************************************)
Ok(v) == [tag |-> "Ok", val |-> v]
Err(e) == [tag |-> "Err", val |-> e]
NoResult == [tag |-> "None", val |-> <<>>]
IsOk(r) == r.tag = "Ok"
IsErr(r) == r.tag = "Err"

(***************************************************************************)
(* Collaborators outside lib.rs                                            *)
(***************************************************************************)
\* GitAnalyzer: each operation answers a text with a string or an error
BackendCall(model, op, text, outcome) ==
    IF outcome = "ok" THEN Ok(<<model, op, text>>) ELSE Err(<<"GenerationError", op, text>>)

\* git::get_file_diffs: an ordered sequence of (path, diff) or an error
DiffSourceResults(n) == { Err(<<"DiffSourceError">>) } \cup { Ok(d) : d \in SeqsUpTo(FileDiffs, n) }

\* Repository::open: a handle on the path, or an error
Repository_open(path) == IF path \in GitRepos THEN Ok(path) ELSE Err(<<"RepositoryError", path>>)

(***************************************************************************)
(* Config                                                                  *)
(***************************************************************************)
NoConfig == [model |-> "none", repo_path |-> "none"]
NoChoice == -1
None == "None"
Moved == [model |-> "moved", repo_path |-> "moved"]

Config_new(model, repo_path) ==
    [model |-> model, repo_path |-> IF repo_path = None THEN "." ELSE repo_path]

\* as Config::new(model, None) would build it
with_new_model_default_repo(self, model) ==
    [new |-> [model |-> model, repo_path |-> "."], self |-> Moved]

\* as a method on &self returning a copy would leave its receiver
with_new_repo_borrowing(self, repo_path) ==
    [new |-> [model |-> self.model, repo_path |-> repo_path], self |-> self]

\* the path of self kept, the argument dropped
with_new_repo_keeps_path(self, repo_path) ==
    [new |-> [model |-> self.model, repo_path |-> self.repo_path], self |-> Moved]

\* self is taken by value: the result is built from the argument and the
\* fields moved out of self, and the caller's binding of self is moved-from
with_new_model(self, model) ==
    [new |-> [model |-> model, repo_path |-> self.repo_path], self |-> Moved]

with_new_repo(self, repo_path) ==
    [new |-> [model |-> self.model, repo_path |-> repo_path], self |-> Moved]

\* the call of another operation of the backend
generate_commit_message_wrong_operation(self, diff, outcome) ==
    BackendCall(self.model, "analyze_contributor", diff, outcome)

generate_commit_message(self, diff, outcome) ==
    BackendCall(self.model, "generate_commit_message", diff, outcome)

analyze_contributor(self, stats, outcome) ==
    BackendCall(self.model, "analyze_contributor", stats, outcome)

(***************************************************************************)
(* Config::analyze_changes: one activation, as a record                    *)
(*   st         "idle" | "join" | "returned"                               *)
(*   model      the backend borrowed from self                             *)
(*   diffs      what get_file_diffs returned, file_diffs its sequence      *)
(*   fut        analysis_futures: per input index, the future's state      *)
(*   outcome    how the backend answers the call of each index             *)
(*   invoked    per input index, the number of analyze_file_changes calls  *)
(*   completed  indices in the order in which their futures became ready   *)
(*   result     the value analyze_changes returns                          *)
(***************************************************************************)
Idle ==
    [st |-> "idle", model |-> "none", diffs |-> NoResult, file_diffs |-> <<>>, fut |-> <<>>, outcome |-> <<>>,
     invoked |-> <<>>, completed |-> <<>>, result |-> NoResult]

\* lines 51-60: a lazy future per (path, diff), in input order
analysis_futures(file_diffs) ==
    [i \in 1..Len(file_diffs) |->
        [st |-> "created", path |-> file_diffs[i].path, diff |-> file_diffs[i].diff,
         req |-> "none", out |-> NoResult]]

\* an empty sequence reported as an error
analyze_changes_start_rejects_empty(self, diffs, outcome) ==
    IF IsErr(diffs) \/ diffs.val = <<>>
    THEN [Idle EXCEPT !.st = "returned", !.model = self.model, !.diffs = diffs,
                      !.result = IF IsErr(diffs) THEN diffs ELSE Err(<<"NoChanges">>)]
    ELSE [Idle EXCEPT !.st = "join", !.model = self.model, !.diffs = diffs,
                      !.file_diffs = diffs.val,
                      !.fut = analysis_futures(diffs.val), !.outcome = outcome,
                      !.invoked = [i \in 1..Len(diffs.val) |-> 0]]

\* get_file_diffs(repo).unwrap_or_default() in place of `?`
analyze_changes_start_ignores_error(self, diffs, outcome) ==
    LET file_diffs == IF IsErr(diffs) THEN <<>> ELSE diffs.val
    IN  [Idle EXCEPT !.st = "join", !.model = self.model, !.diffs = diffs,
                     !.file_diffs = file_diffs,
                     !.fut = analysis_futures(file_diffs), !.outcome = outcome,
                     !.invoked = [i \in 1..Len(file_diffs) |-> 0]]

\* lines 49-60: get_file_diffs(repo)?, then the futures are built
analyze_changes_start(self, diffs, outcome) ==
    IF IsErr(diffs)
    THEN [Idle EXCEPT !.st = "returned", !.model = self.model, !.diffs = diffs,
                      !.result = diffs]
    ELSE [Idle EXCEPT !.st = "join", !.model = self.model, !.diffs = diffs,
                      !.file_diffs = diffs.val,
                      !.fut = analysis_futures(diffs.val), !.outcome = outcome,
                      !.invoked = [i \in 1..Len(diffs.val) |-> 0]]

Created(p) == { i \in DOMAIN p.fut : p.fut[i].st = "created" }
Pending(p) == { i \in DOMAIN p.fut : p.fut[i].st = "pending" }
Ready(p) == { i \in DOMAIN p.fut : p.fut[i].st = "ready" }
Min(S) == CHOOSE x \in S : \A y \in S : x <= y

\* join_all polls its futures in input order; the first poll of future i
\* runs line 54 up to the await: the backend call for diff i is started
poll_first(p) ==
    LET i == Min(Created(p))
    IN  [p EXCEPT !.fut[i].st = "pending", !.fut[i].req = p.fut[i].diff,
                  !.invoked[i] = p.invoked[i] + 1]

\* the error of the call wrapped with the path of its file
future_output_with_path(f, resp) ==
    IF IsErr(resp) THEN Err(<<f.path>> \o resp.val)
    ELSE Ok([path |-> f.path, explanation |-> resp.val])

\* lines 54-58: the awaited call of future i answers; `?` passes an error
\* on, a string is paired with the path the future captured
future_output(f, resp) ==
    IF IsErr(resp) THEN resp ELSE Ok([path |-> f.path, explanation |-> resp.val])

\* every future stores its output in the slot of the first
poll_ready_shared_slot(p, i) ==
    LET resp == BackendCall(p.model, "analyze_file_changes", p.fut[i].req, p.outcome[i])
    IN  [p EXCEPT !.fut[i].st = "ready", !.fut[1].out = future_output(p.fut[i], resp),
                  !.completed = Append(p.completed, i)]

poll_ready(p, i) ==
    LET resp == BackendCall(p.model, "analyze_file_changes", p.fut[i].req, p.outcome[i])
    IN  [p EXCEPT !.fut[i].st = "ready", !.fut[i].out = future_output(p.fut[i], resp),
                  !.completed = Append(p.completed, i)]

\* try_join_all: ready as soon as one future has failed
join_all_ready_on_first_error(p) ==
    \/ Created(p) = {} /\ Pending(p) = {}
    \/ \E i \in Ready(p) : IsErr(p.fut[i].out)

\* a wait-any join: ready as soon as one future is
join_all_ready_any(p) ==
    \/ Created(p) = {} /\ Pending(p) = {}
    \/ Ready(p) # {}

\* outputs in the order in which the futures completed
join_all_output_in_completion_order(p) ==
    [k \in DOMAIN p.fut |-> p.fut[p.completed[k]].out]

\* join_all is ready when every future is, and yields the outputs in the
\* order of the futures it was given
join_all_ready(p) == Created(p) = {} /\ Pending(p) = {}

join_all_output(p) == [i \in DOMAIN p.fut |-> p.fut[i].out]

\* a scan that keeps the last Err it meets
RECURSIVE collect_last_err_from(_, _, _, _)
collect_last_err_from(rs, i, acc, err) ==
    IF i > Len(rs) THEN (IF err.tag = "None" THEN Ok(acc) ELSE err)
    ELSE IF IsErr(rs[i]) THEN collect_last_err_from(rs, i + 1, acc, rs[i])
    ELSE collect_last_err_from(rs, i + 1, Append(acc, rs[i].val), err)

collect_last_err(rs) == collect_last_err_from(rs, 1, <<>>, NoResult)

\* line 65: collect::<Result<Vec<_>, _>>() takes items in order and stops
\* at the first Err
RECURSIVE collect_from(_, _, _)
collect_from(rs, i, acc) ==
    IF i > Len(rs) THEN Ok(acc)
    ELSE IF IsErr(rs[i]) THEN rs[i]
    ELSE collect_from(rs, i + 1, Append(acc, rs[i].val))

collect(rs) == collect_from(rs, 1, <<>>)

\* lines 62-65
analyze_changes_return(p) ==
    [p EXCEPT !.st = "returned", !.result = collect(join_all_output(p))]

(***************************************************************************)
(* State                                                                   *)
(*   pc         position of run()                                          *)
(*   repo_path  the path the first loop of run() broke with, until it is   *)
(*              moved into Config::new                                     *)
(*   config     the Config bound in run()                                  *)
(*   repo       the path the open Repository handle was opened from        *)
(*   new_model, new_path  the argument of the pending with_new_* call,     *)
(*              until it is moved into the call                            *)
(*   mode       the Mode select_mode returned, while it executes           *)
(*   pipe       the activation of analyze_changes, while the Mode executes *)
(*   pipe2      a second activation, used only to compare two executions   *)
(*   choice     the index show_selection_menu returned, while its match    *)
(*              arm runs                                                   *)
(*   op_result  what the Config operation returned to the executing Mode   *)
(*   ret        what run() returned                                        *)
(*   calls      backend calls made for the executing Mode                  *)
(*   validated  paths Repository::open has succeeded on                    *)
(*   rejected   paths Repository::open has failed on                       *)
(*   last_op    the Config constructor or replacement that ran last        *)
(*   old_self   the binding passed as self to the last with_new_* call,    *)
(*              as its caller finds it after the call                      *)
(***************************************************************************)
VARIABLES pc, repo_path, config, repo, new_model, new_path, mode, pipe, pipe2, choice,
          op_result, ret, calls, validated, rejected, last_op, old_self

vars == <<pc, repo_path, config, repo, new_model, new_path, mode, pipe, pipe2, choice,
          op_result, ret, calls, validated, rejected, last_op, old_self>>

loop_vars == <<repo_path, config, repo, new_model, new_path, mode, validated, rejected, last_op, old_self>>

Init ==
    /\ pc = "SelectRepository"
    /\ repo_path = "none"
    /\ config = NoConfig
    /\ repo = "none"
    /\ new_model = "none"
    /\ new_path = "none"
    /\ mode = "none"
    /\ choice = NoChoice
    /\ pipe = Idle
    /\ pipe2 = Idle
    /\ op_result = NoResult
    /\ ret = NoResult
    /\ calls = <<>>
    /\ validated = {}
    /\ rejected = {}
    /\ last_op = "none"
    /\ old_self = NoConfig

\* the input error is noted and the loop stays where it is
Cancelled_keeps_running ==
    /\ pc' = pc
    /\ ret' = Err(<<"InputCancelled">>)

\* a prompt's `?`: the input error leaves run()
Cancelled ==
    /\ pc' = "Returned"
    /\ ret' = Err(<<"InputCancelled">>)

(***************************************************************************)
(* run(), lines 74-88                                                      *)
(***************************************************************************)
\* the loop breaks with the path whatever Repository::open answers
SelectRepository_unchecked ==
    /\ pc = "SelectRepository"
    /\ UNCHANGED choice
    /\ \/ /\ Cancelled
          /\ UNCHANGED <<repo_path, validated, rejected>>
       \/ \E path \in Paths :
            /\ repo_path' = path
            /\ IF IsOk(Repository_open(path))
               THEN validated' = validated \cup {path} /\ rejected' = rejected
               ELSE rejected' = rejected \cup {path} /\ validated' = validated
            /\ pc' = "SelectBackend"
            /\ ret' = ret
    /\ UNCHANGED <<config, repo, new_model, new_path, mode, pipe, pipe2, op_result, calls,
                   last_op, old_self>>

\* lines 74-80: prompt for a path until Repository::open accepts it
SelectRepository ==
    /\ pc = "SelectRepository"
    /\ UNCHANGED choice
    /\ \/ /\ Cancelled
          /\ UNCHANGED <<repo_path, validated, rejected>>
       \/ \E path \in Paths :
            IF IsOk(Repository_open(path))
            THEN /\ repo_path' = path
                 /\ validated' = validated \cup {path}
                 /\ pc' = "SelectBackend"
                 /\ UNCHANGED <<ret, rejected>>
            ELSE /\ rejected' = rejected \cup {path}
                 /\ UNCHANGED <<pc, ret, repo_path, validated>>
    /\ UNCHANGED <<config, repo, new_model, new_path, mode, pipe, pipe2, op_result, calls,
                   last_op, old_self>>

\* lines 82-86: select a provider, build the Config
SelectBackend ==
    /\ pc = "SelectBackend"
    /\ UNCHANGED choice
    /\ \/ /\ Cancelled
          /\ UNCHANGED <<repo_path, config, last_op>>
       \/ \E model \in Backends :
            /\ config' = Config_new(model, repo_path)
            /\ repo_path' = "none"
            /\ last_op' = "new"
            /\ pc' = "OpenRepo"
            /\ ret' = ret
    /\ UNCHANGED <<repo, new_model, new_path, mode, pipe, pipe2, op_result, calls,
                   validated, rejected, old_self>>

\* line 88: Repository::open(&config.repo_path)?
OpenRepo ==
    /\ pc = "OpenRepo"
    /\ UNCHANGED choice
    /\ LET r == Repository_open(config.repo_path)
       IN  IF IsOk(r)
           THEN /\ repo' = r.val
                /\ validated' = validated \cup {config.repo_path}
                /\ pc' = "Ready"
                /\ UNCHANGED <<ret, rejected>>
           ELSE /\ pc' = "Returned"
                /\ ret' = r
                /\ rejected' = rejected \cup {config.repo_path}
                /\ UNCHANGED <<repo, validated>>
    /\ UNCHANGED <<repo_path, config, new_model, new_path, mode, pipe, pipe2, op_result, calls,
                   last_op, old_self>>

(***************************************************************************)
(* run(), lines 90-92: select a mode and execute it                        *)
(***************************************************************************)
\* line 91: ui::select_mode().await?
SelectMode ==
    /\ pc = "Ready"
    /\ choice' = NoChoice
    /\ \/ /\ Cancelled
          /\ UNCHANGED <<mode, pipe, op_result, calls>>
       \/ \E m \in Modes :
            /\ mode' = m
            /\ pc' = "Executing"
            /\ ret' = ret
            /\ UNCHANGED <<pipe, op_result, calls>>
    /\ UNCHANGED <<repo_path, config, repo, new_model, new_path, pipe2, validated, rejected, last_op, old_self>>

Call(model, op, text) == [model |-> model, op |-> op, text |-> text]

\* the Mode calls generate_commit_message (lines 44-46)
ExecuteCommit ==
    /\ pc = "Executing" /\ mode = "commit" /\ op_result.tag = "None"
    /\ UNCHANGED choice
    /\ \E diff \in {"+1", "+2"}, outcome \in Outcomes :
        /\ op_result' = generate_commit_message(config, diff, outcome)
        /\ calls' = Append(calls, Call(config.model, "generate_commit_message", diff))
    /\ UNCHANGED <<pc, ret, pipe, pipe2>>
    /\ UNCHANGED loop_vars

\* the Mode calls analyze_contributor (lines 68-70)
ExecuteContributor ==
    /\ pc = "Executing" /\ mode = "contributor" /\ op_result.tag = "None"
    /\ UNCHANGED choice
    /\ \E stats \in {"s1", "s2"}, outcome \in Outcomes :
        /\ op_result' = analyze_contributor(config, stats, outcome)
        /\ calls' = Append(calls, Call(config.model, "analyze_contributor", stats))
    /\ UNCHANGED <<pc, ret, pipe, pipe2>>
    /\ UNCHANGED loop_vars

\* the Mode calls analyze_changes: lines 49-60
AnalyzeStart ==
    /\ pc = "Executing" /\ mode = "changes" /\ pipe.st = "idle"
    /\ UNCHANGED choice
    /\ \E diffs \in DiffSourceResults(MaxFiles) :
         \E outcome \in [1..(IF IsOk(diffs) THEN Len(diffs.val) ELSE 0) -> Outcomes] :
            pipe' = analyze_changes_start(config, diffs, outcome)
    /\ UNCHANGED <<pc, ret, pipe2, op_result, calls>>
    /\ UNCHANGED loop_vars

\* join_all polls a future for the first time
AnalyzeDispatch ==
    /\ pc = "Executing" /\ pipe.st = "join" /\ Created(pipe) # {}
    /\ UNCHANGED choice
    /\ pipe' = poll_first(pipe)
    /\ LET i == Min(Created(pipe))
       IN  calls' = Append(calls, Call(pipe.model, "analyze_file_changes", pipe.fut[i].diff))
    /\ UNCHANGED <<pc, ret, pipe2, op_result>>
    /\ UNCHANGED loop_vars

\* a started backend call answers
AnalyzeComplete ==
    /\ pc = "Executing" /\ pipe.st = "join"
    /\ UNCHANGED choice
    /\ \E i \in Pending(pipe) : pipe' = poll_ready(pipe, i)
    /\ UNCHANGED <<pc, ret, pipe2, op_result, calls>>
    /\ UNCHANGED loop_vars

\* lines 62-65: join_all is ready, the outputs are collected
AnalyzeReturn ==
    /\ pc = "Executing" /\ pipe.st = "join" /\ join_all_ready(pipe)
    /\ UNCHANGED choice
    /\ pipe' = analyze_changes_return(pipe)
    /\ op_result' = pipe'.result
    /\ UNCHANGED <<pc, ret, pipe2, calls>>
    /\ UNCHANGED loop_vars

\* analyze_changes returned at line 49
AnalyzeDiffError ==
    /\ pc = "Executing" /\ pipe.st = "returned" /\ op_result.tag = "None"
    /\ UNCHANGED choice
    /\ op_result' = pipe.result
    /\ UNCHANGED <<pc, ret, pipe, pipe2, calls>>
    /\ UNCHANGED loop_vars

\* an error handed back by the Mode ends run() with Ok(())
ModeReturn_ok_on_error ==
    /\ pc = "Executing" /\ op_result.tag # "None"
    /\ UNCHANGED choice
    /\ \/ /\ pc' = "PostAction"
          /\ ret' = ret
       \/ /\ IsErr(op_result)
          /\ pc' = "Returned"
          /\ ret' = Ok(<<>>)
    /\ mode' = "none"
    /\ pipe' = Idle
    /\ op_result' = NoResult
    /\ calls' = <<>>
    /\ UNCHANGED <<repo_path, config, repo, new_model, new_path, pipe2, validated, rejected,
                   last_op, old_self>>

\* line 92: mode.execute(..).await? ; the Mode shows an error of the
\* operation itself or hands it to run()
ModeReturn ==
    /\ pc = "Executing" /\ op_result.tag # "None"
    /\ UNCHANGED choice
    /\ \/ /\ pc' = "PostAction"
          /\ ret' = ret
       \/ /\ IsErr(op_result)
          /\ pc' = "Returned"
          /\ ret' = op_result
    /\ mode' = "none"
    /\ pipe' = Idle
    /\ op_result' = NoResult
    /\ calls' = <<>>
    /\ UNCHANGED <<repo_path, config, repo, new_model, new_path, pipe2, validated, rejected,
                   last_op, old_self>>

(***************************************************************************)
(* run(), lines 94-120: the menu after the action                          *)
(***************************************************************************)
\* the last arm as `_ => ()`: the loop goes on after "Exit"
PostAction_exit_without_break ==
    /\ pc = "PostAction"
    /\ \/ /\ Cancelled
          /\ UNCHANGED choice
       \/ \E index \in 0..3 :
            /\ choice' = index
            /\ pc' = CASE index = 0 -> "Ready"
                       [] index = 1 -> "SwitchModel"
                       [] index = 2 -> "SwitchRepo"
                       [] OTHER -> "Ready"
            /\ ret' = ret
    /\ UNCHANGED <<pipe, pipe2, op_result, calls>>
    /\ UNCHANGED loop_vars

\* the arms of "Switch AI model" and "Switch repository" exchanged
PostAction_swapped_arms ==
    /\ pc = "PostAction"
    /\ \/ /\ Cancelled
          /\ UNCHANGED choice
       \/ \E index \in 0..3 :
            /\ choice' = index
            /\ pc' = CASE index = 0 -> "Ready"
                       [] index = 1 -> "SwitchRepo"
                       [] index = 2 -> "SwitchModel"
                       [] OTHER -> "Returned"
            /\ ret' = IF index \in 0..2 THEN ret ELSE Ok(<<>>)
    /\ UNCHANGED <<pipe, pipe2, op_result, calls>>
    /\ UNCHANGED loop_vars

\* line 95: show_selection_menu(..)? and the match on the chosen index
PostAction ==
    /\ pc = "PostAction"
    /\ \/ /\ Cancelled
          /\ UNCHANGED choice
       \/ \E index \in 0..3 :
            /\ choice' = index
            /\ pc' = CASE index = 0 -> "Ready"
                       [] index = 1 -> "SwitchModel"
                       [] index = 2 -> "SwitchRepo"
                       [] OTHER -> "Returned"
            /\ ret' = IF index \in 0..2 THEN ret ELSE Ok(<<>>)
    /\ UNCHANGED <<pipe, pipe2, op_result, calls>>
    /\ UNCHANGED loop_vars

\* lines 98-99: select_provider(..)?
SwitchModel ==
    /\ pc = "SwitchModel"
    /\ UNCHANGED choice
    /\ \/ /\ Cancelled
          /\ UNCHANGED new_model
       \/ \E model \in Backends :
            /\ new_model' = model
            /\ pc' = "WithNewModel"
            /\ ret' = ret
    /\ UNCHANGED <<repo_path, config, repo, new_path, mode, pipe, pipe2, op_result, calls,
                   validated, rejected, last_op, old_self>>

\* line 100: config = config.with_new_model(..)
WithNewModel ==
    /\ pc = "WithNewModel"
    /\ choice' = NoChoice
    /\ LET r == with_new_model(config, new_model)
       IN  /\ config' = r.new
           /\ old_self' = r.self
    /\ last_op' = "with_new_model"
    /\ new_model' = "none"
    /\ pc' = "Ready"
    /\ UNCHANGED <<repo_path, repo, new_path, mode, pipe, pipe2, op_result, ret,
                   calls, validated, rejected>>

\* Repository::open(&path)? in place of the match: a failed attempt ends run()
SwitchRepo_gives_up ==
    /\ pc = "SwitchRepo"
    /\ UNCHANGED choice
    /\ \/ /\ Cancelled
          /\ UNCHANGED <<repo, new_path, validated, rejected>>
       \/ \E path \in Paths :
            LET r == Repository_open(path)
            IN  IF IsOk(r)
                THEN /\ repo' = r.val
                     /\ new_path' = path
                     /\ validated' = validated \cup {path}
                     /\ pc' = "WithNewRepo"
                     /\ UNCHANGED <<ret, rejected>>
                ELSE /\ rejected' = rejected \cup {path}
                     /\ pc' = "Returned"
                     /\ ret' = r
                     /\ UNCHANGED <<repo, new_path, validated>>
    /\ UNCHANGED <<repo_path, config, new_model, mode, pipe, pipe2, op_result, calls,
                   last_op, old_self>>

\* lines 103-112: prompt for a path until Repository::open accepts it; the
\* new handle replaces repo
SwitchRepo ==
    /\ pc = "SwitchRepo"
    /\ UNCHANGED choice
    /\ \/ /\ Cancelled
          /\ UNCHANGED <<repo, new_path, validated, rejected>>
       \/ \E path \in Paths :
            LET r == Repository_open(path)
            IN  IF IsOk(r)
                THEN /\ repo' = r.val
                     /\ new_path' = path
                     /\ validated' = validated \cup {path}
                     /\ pc' = "WithNewRepo"
                     /\ UNCHANGED <<ret, rejected>>
                ELSE /\ rejected' = rejected \cup {path}
                     /\ UNCHANGED <<pc, ret, repo, new_path, validated>>
    /\ UNCHANGED <<repo_path, config, new_model, mode, pipe, pipe2, op_result, calls,
                   last_op, old_self>>

\* line 113: config = config.with_new_repo(new_path)
WithNewRepo ==
    /\ pc = "WithNewRepo"
    /\ choice' = NoChoice
    /\ LET r == with_new_repo(config, new_path)
       IN  /\ config' = r.new
           /\ old_self' = r.self
    /\ last_op' = "with_new_repo"
    /\ new_path' = "none"
    /\ pc' = "Ready"
    /\ UNCHANGED <<repo_path, repo, new_model, mode, pipe, pipe2, op_result, ret,
                   calls, validated, rejected>>

Next ==
    \/ SelectRepository
    \/ SelectBackend
    \/ OpenRepo
    \/ SelectMode
    \/ ExecuteCommit
    \/ ExecuteContributor
    \/ AnalyzeStart
    \/ AnalyzeDispatch
    \/ AnalyzeComplete
    \/ AnalyzeReturn
    \/ AnalyzeDiffError
    \/ ModeReturn
    \/ PostAction
    \/ SwitchModel
    \/ WithNewModel
    \/ SwitchRepo
    \/ WithNewRepo

Spec == Init /\ [][Next]_vars

(***************************************************************************)
(* Two executions of analyze_changes on the same Config, the same          *)
(* get_file_diffs result and the same answer of the backend per call,      *)
(* each scheduled on its own                                               *)
(***************************************************************************)
InitPair ==
    /\ pc = "Executing"
    /\ repo_path = "r1"
    /\ \E model \in Backends : config = Config_new(model, "r1")
    /\ repo = "r1"
    /\ new_model = "none"
    /\ new_path = "none"
    /\ mode = "changes"
    /\ choice = NoChoice
    /\ \E diffs \in DiffSourceResults(MaxFilesPair) :
         \E outcome \in [1..(IF IsOk(diffs) THEN Len(diffs.val) ELSE 0) -> Outcomes] :
            /\ pipe = analyze_changes_start(config, diffs, outcome)
            /\ pipe2 = analyze_changes_start(config, diffs, outcome)
    /\ op_result = NoResult
    /\ ret = NoResult
    /\ calls = <<>>
    /\ validated = {"r1"}
    /\ rejected = {}
    /\ last_op = "new"
    /\ old_self = NoConfig

pair_frame == <<pc, repo_path, config, repo, new_model, new_path, mode, choice, op_result, ret, calls,
                validated, rejected, last_op, old_self>>

FirstDispatch ==
    /\ pipe.st = "join" /\ Created(pipe) # {}
    /\ pipe' = poll_first(pipe)
    /\ UNCHANGED <<pipe2, pair_frame>>

FirstComplete ==
    /\ pipe.st = "join"
    /\ \E i \in Pending(pipe) : pipe' = poll_ready(pipe, i)
    /\ UNCHANGED <<pipe2, pair_frame>>

FirstReturn ==
    /\ pipe.st = "join" /\ join_all_ready(pipe)
    /\ pipe' = analyze_changes_return(pipe)
    /\ UNCHANGED <<pipe2, pair_frame>>

SecondDispatch ==
    /\ pipe2.st = "join" /\ Created(pipe2) # {}
    /\ pipe2' = poll_first(pipe2)
    /\ UNCHANGED <<pipe, pair_frame>>

SecondComplete ==
    /\ pipe2.st = "join"
    /\ \E i \in Pending(pipe2) : pipe2' = poll_ready(pipe2, i)
    /\ UNCHANGED <<pipe, pair_frame>>

SecondReturn ==
    /\ pipe2.st = "join" /\ join_all_ready(pipe2)
    /\ pipe2' = analyze_changes_return(pipe2)
    /\ UNCHANGED <<pipe, pair_frame>>

NextPair ==
    \/ FirstDispatch
    \/ FirstComplete
    \/ FirstReturn
    \/ SecondDispatch
    \/ SecondComplete
    \/ SecondReturn

SpecPair == InitPair /\ [][NextPair]_vars

\* The first execution runs on an executor that keeps polling and on a
\* backend that answers every call; the second has no such guarantee: any
\* of its calls may hang for ever.
FairFirst ==
    /\ WF_vars(FirstDispatch)
    /\ WF_vars(FirstComplete)
    /\ WF_vars(FirstReturn)

SpecLive == InitPair /\ [][NextPair]_vars /\ FairFirst

(***************************************************************************)
(* Properties of analyze_changes                                           *)
(***************************************************************************)
Failing(p) == { i \in DOMAIN p.outcome : p.outcome[i] = "fail" }
ExpectedExplanation(p, i) ==
    BackendCall(p.model, "analyze_file_changes", p.file_diffs[i].diff, "ok").val
ExpectedError(p, i) ==
    BackendCall(p.model, "analyze_file_changes", p.file_diffs[i].diff, "fail").val
Returned(p) == p.st = "returned"

\* C1: when get_file_diffs returns n >= 1 diffs and every backend call
\* succeeds, analyze_changes returns Ok with exactly n FileAnalysis values,
\* the i-th carrying the path of the i-th diff and the backend's answer to
\* the i-th diff text, whatever the order of completion.
C1_OrderedSuccess ==
    (Returned(pipe) /\ IsOk(pipe.diffs) /\ Len(pipe.file_diffs) >= 1 /\ Failing(pipe) = {})
    => /\ IsOk(pipe.result)
       /\ Len(pipe.result.val) = Len(pipe.file_diffs)
       /\ \A i \in 1..Len(pipe.file_diffs) :
            /\ pipe.result.val[i].path = pipe.file_diffs[i].path
            /\ pipe.result.val[i].explanation = ExpectedExplanation(pipe, i)

C1_Witness ==
    /\ Returned(pipe) /\ Failing(pipe) = {} /\ Len(pipe.file_diffs) = 3
    /\ pipe.completed = <<3, 1, 2>>
    /\ pipe.file_diffs[1].path = "a.txt" /\ pipe.file_diffs[3].path = "b.txt"
    /\ IsOk(pipe.result)

\* C2: when one or more backend calls fail, analyze_changes returns the
\* error of the failing call with the lowest input index and nothing else,
\* whatever the order of completion.
C2_FirstErrorInInputOrder ==
    (Returned(pipe) /\ Failing(pipe) # {})
    => /\ IsErr(pipe.result)
       /\ pipe.result = Err(ExpectedError(pipe, Min(Failing(pipe))))

C2_Witness ==
    /\ Returned(pipe) /\ pipe.outcome = <<"ok", "fail", "fail">>
    /\ pipe.completed = <<3, 2, 1>>
    /\ pipe.file_diffs[2].diff # pipe.file_diffs[3].diff
    /\ IsErr(pipe.result)

\* C3: once get_file_diffs has succeeded with n diffs, the backend is called
\* at most once per diff, a diff not yet sent can still be sent whatever the
\* state of the other calls, and at the return of analyze_changes each diff
\* has been sent exactly once (n calls, on the Config's backend, each with
\* its diff text) and each call has completed.
C3_EveryDiffDispatchedOnce ==
    (pipe.st # "idle" /\ IsOk(pipe.diffs) /\ pc = "Executing")
    => /\ \A i \in DOMAIN pipe.fut : pipe.invoked[i] <= 1
       /\ Len(pipe.invoked) = Len(pipe.file_diffs)
       /\ (pipe.st = "join" /\ Created(pipe) # {}) => ENABLED AnalyzeDispatch
       /\ Returned(pipe) =>
            /\ \A i \in DOMAIN pipe.fut : pipe.invoked[i] = 1 /\ pipe.fut[i].st = "ready"
            /\ Len(calls) = Len(pipe.file_diffs)
            /\ \A i \in 1..Len(calls) :
                 calls[i] = Call(config.model, "analyze_file_changes", pipe.file_diffs[i].diff)

C3_Witness ==
    /\ Returned(pipe) /\ Len(pipe.file_diffs) = 3
    /\ pipe.outcome = <<"fail", "ok", "fail">>
    /\ pipe.completed[1] = 1
    /\ Len(calls) = 3

\* C4: analyze_changes has a result only when every future it built has
\* completed.
C4_WaitAll ==
    (pipe.result.tag # "None" \/ (mode = "changes" /\ op_result.tag # "None"))
    => /\ Len(pipe.fut) = Len(pipe.file_diffs)
       /\ \A i \in DOMAIN pipe.fut : pipe.fut[i].st = "ready"

C4_Witness ==
    /\ Returned(pipe) /\ pipe.outcome = <<"fail", "ok", "ok">>
    /\ pipe.completed = <<1, 3, 2>>
    /\ IsErr(pipe.result)
    /\ \A i \in 1..3 : pipe.fut[i].st = "ready"

\* C5: when get_file_diffs returns the empty sequence, analyze_changes
\* returns Ok of the empty sequence and no backend call is made.
C5_EmptyDiffs ==
    (Returned(pipe) /\ IsOk(pipe.diffs) /\ pipe.diffs.val = <<>>)
    => /\ IsOk(pipe.result)
       /\ pipe.result.val = <<>>
       /\ calls = <<>>

C5_Witness ==
    /\ Returned(pipe) /\ IsOk(pipe.diffs) /\ pipe.file_diffs = <<>>
    /\ IsOk(op_result)

\* C6: when get_file_diffs fails, analyze_changes returns that error at
\* once: no future is built and no backend call is made.
C6_DiffSourceError ==
    IsErr(pipe.diffs)
    => /\ Returned(pipe)
       /\ pipe.result = pipe.diffs
       /\ pipe.fut = <<>>
       /\ calls = <<>>

C6_Witness ==
    /\ IsErr(pipe.diffs) /\ Returned(pipe)
    /\ IsErr(op_result)
    /\ pc = "Executing"

\* C7: two executions of analyze_changes with the same diffs and the same
\* outcome per call return the same result, however each is scheduled.
C7_ResultIndependentOfSchedule ==
    (Returned(pipe) /\ Returned(pipe2))
    => /\ pipe.result.tag = pipe2.result.tag
       /\ pipe.result.val = pipe2.result.val

C7_Witness ==
    /\ Returned(pipe) /\ Returned(pipe2)
    /\ pipe.completed = <<1, 2>> /\ pipe2.completed = <<2, 1>>
    /\ pipe.file_diffs[1] # pipe.file_diffs[2]
    /\ IsOk(pipe.result)

(***************************************************************************)
(* Properties of the Config replacements                                   *)
(***************************************************************************)
\* C8: with_new_model yields a Config with the new backend and the path of
\* the original, with_new_repo one with the new path and the backend of
\* the original; neither opens a repository nor calls a backend.
C8_ReplacementFrame ==
    [][ /\ pc = "WithNewModel" =>
            /\ config'.model = new_model
            /\ config'.repo_path = config.repo_path
            /\ UNCHANGED <<calls, validated, rejected, repo>>
        /\ pc = "WithNewRepo" =>
            /\ config'.repo_path = new_path
            /\ config'.model = config.model
            /\ UNCHANGED <<calls, validated, rejected, repo>> ]_vars

C8_Witness ==
    /\ last_op = "with_new_model"
    /\ config = [model |-> "m2", repo_path |-> "r2"]
    /\ validated = {"r1", "r2"}
    /\ pc = "Ready"

\* C9 as stated: after a replacement, the caller still holds the original
\* Config, with both fields as they were.
C9_OriginalStillUsable ==
    [][ (pc \in {"WithNewModel", "WithNewRepo"}) => (old_self' = config) ]_vars

\* C9 as amended: a replacement consumes the original Config, which its
\* caller cannot use afterwards; the field that is not replaced is carried
\* into the Config returned.
C9_OriginalConsumed ==
    [][ (pc \in {"WithNewModel", "WithNewRepo"}) =>
            /\ old_self' = Moved
            /\ pc = "WithNewModel" => config'.repo_path = config.repo_path
            /\ pc = "WithNewRepo" => config'.model = config.model ]_vars

C9_Witness ==
    /\ last_op = "with_new_repo"
    /\ old_self = Moved
    /\ config = [model |-> "m1", repo_path |-> "r2"]

(***************************************************************************)
(* Properties of run()                                                     *)
(***************************************************************************)
\* C10: a Config in run() has one of the backends and a path on which
\* Repository::open has succeeded before and has not failed.
C10_ValidatedPath ==
    config # NoConfig
    => /\ config.model \in Backends
       /\ config.repo_path \in validated
       /\ config.repo_path \notin rejected

C10_Witness ==
    /\ last_op = "with_new_repo"
    /\ config.repo_path = "r2"
    /\ "bad" \in rejected
    /\ "r1" \in validated

(***************************************************************************)
(* Properties of the loop of run()                                         *)
(***************************************************************************)
\* C11 as stated: when the operation of the executing Mode has failed, the
\* loop still goes on to PostAction.
C11_ErrorStillPostAction ==
    [][ (pc = "Executing" /\ IsErr(op_result) /\ pc' # "Executing")
            => (pc' = "PostAction") ]_vars

\* C11 as amended: the loop leaves Executing for PostAction, with run() not
\* returned, or, only when the operation has failed and the Mode hands the
\* error back, by returning that very error from run().
C11_ErrorHandedBackEndsRun ==
    [][ (pc = "Executing" /\ pc' # "Executing")
            => \/ pc' = "PostAction" /\ ret' = ret /\ ret.tag = "None"
               \/ /\ IsErr(op_result)
                  /\ pc' = "Returned"
                  /\ ret' = op_result ]_vars

C11_Witness ==
    /\ pc = "Returned"
    /\ IsErr(ret)
    /\ ret.val = <<"GenerationError", "generate_commit_message", "+1">>
    /\ config.model = "m1"

PromptStates == {"SelectRepository", "SelectBackend", "Ready", "PostAction", "SwitchModel",
                 "SwitchRepo"}

\* C12 as stated: a cancelled prompt never ends the session, so run() never
\* returns the input error of a prompt.
C12_CancelNeverEndsRun ==
    ~(pc = "Returned" /\ IsErr(ret) /\ ret.val = <<"InputCancelled">>)

\* C12 as amended: the input error of a prompt arises only at one of the
\* six prompts and is returned from run() at once, which ends the session;
\* the Config and the repository handle are as they were at the prompt.
C12_CancelEndsRun ==
    [][ (ret.tag = "None" /\ IsErr(ret') /\ ret'.val = <<"InputCancelled">>)
            => /\ pc \in PromptStates
               /\ pc' = "Returned"
               /\ UNCHANGED <<config, repo, validated, rejected, calls>> ]_vars

C12_Witness ==
    /\ pc = "Returned"
    /\ IsErr(ret) /\ ret.val = <<"InputCancelled">>
    /\ last_op = "with_new_model"
    /\ config = [model |-> "m2", repo_path |-> "r1"]
    /\ repo = "r1"

\* C13 as stated: PostAction is left for Ready on "continue", for the
\* backend selection and then Ready on "switch backend", for the path
\* prompt and then Ready on "switch repository", for the end of run() on
\* "exit", and in no other way; the field not switched stays as it was.
C13_OnlyTheFourChoices ==
    [][ /\ (pc = "PostAction" /\ pc' # pc) =>
            /\ UNCHANGED <<config, repo>>
            /\ \/ choice' = 0 /\ pc' = "Ready"
               \/ choice' = 1 /\ pc' = "SwitchModel"
               \/ choice' = 2 /\ pc' = "SwitchRepo"
               \/ choice' = 3 /\ pc' = "Returned"
        /\ (pc = "SwitchModel" /\ pc' # pc) =>
            pc' = "WithNewModel" /\ UNCHANGED <<config, repo>>
        /\ (pc = "WithNewModel" /\ pc' # pc) =>
            pc' = "Ready" /\ config'.repo_path = config.repo_path /\ repo' = repo
        /\ (pc = "SwitchRepo" /\ pc' # pc) =>
            pc' = "WithNewRepo" /\ config' = config
        /\ (pc = "WithNewRepo" /\ pc' # pc) =>
            pc' = "Ready" /\ config'.model = config.model ]_vars

\* C13 as amended: the same four choices and their paths, and besides them
\* the input error of the menu, of the backend selection or of the path
\* prompt, each of which ends run() with that error.
C13_FourChoicesOrInputError ==
    [][ /\ (pc = "PostAction" /\ pc' # pc) =>
            /\ UNCHANGED <<config, repo>>
            /\ \/ choice' = 0 /\ pc' = "Ready" /\ ret' = ret
               \/ choice' = 1 /\ pc' = "SwitchModel" /\ ret' = ret
               \/ choice' = 2 /\ pc' = "SwitchRepo" /\ ret' = ret
               \/ choice' = 3 /\ pc' = "Returned" /\ IsOk(ret')
               \/ choice' = NoChoice /\ pc' = "Returned" /\ IsErr(ret')
        /\ (pc = "SwitchModel" /\ pc' # pc) =>
            /\ UNCHANGED <<config, repo>>
            /\ \/ pc' = "WithNewModel"
               \/ pc' = "Returned" /\ IsErr(ret')
        /\ (pc = "WithNewModel" /\ pc' # pc) =>
            pc' = "Ready" /\ config'.repo_path = config.repo_path /\ repo' = repo
        /\ (pc = "SwitchRepo" /\ pc' # pc) =>
            /\ config' = config
            /\ \/ pc' = "WithNewRepo"
               \/ pc' = "Returned" /\ IsErr(ret') /\ repo' = repo
        /\ (pc = "WithNewRepo" /\ pc' # pc) =>
            pc' = "Ready" /\ config'.model = config.model ]_vars

C13_Witness ==
    /\ pc = "Returned"
    /\ choice = 3
    /\ IsOk(ret)
    /\ last_op = "with_new_repo"
    /\ config = [model |-> "m2", repo_path |-> "r2"]
    /\ validated = {"r1", "r2"}

IsRepositoryError(r) == IsErr(r) /\ r.val[1] = "RepositoryError"

\* C14 as stated: at either path prompt a failed open keeps the loop at the
\* prompt with the Config and the handle as they were, the prompt is left
\* only with a path that Repository::open accepted, and no RepositoryError
\* reaches analyze_changes or is returned from run().
C14_LeftOnlyBySuccessfulOpen ==
    [][ /\ ~IsRepositoryError(ret') /\ ~IsRepositoryError(op_result')
        /\ ~IsRepositoryError(pipe'.diffs)
        /\ (pc \in {"SelectRepository", "SwitchRepo"}) =>
            /\ (rejected' # rejected) => (pc' = pc /\ UNCHANGED <<config, repo, repo_path, new_path>>)
            /\ (pc' # pc) =>
                 /\ pc' = (IF pc = "SelectRepository" THEN "SelectBackend" ELSE "WithNewRepo")
                 /\ (IF pc = "SelectRepository" THEN repo_path' ELSE new_path') \in GitRepos ]_vars

\* C14 as amended: the same, except that the prompt is also left by its own
\* input error, which ends run().
C14_LeftBySuccessfulOpenOrInputError ==
    [][ /\ ~IsRepositoryError(ret') /\ ~IsRepositoryError(op_result')
        /\ ~IsRepositoryError(pipe'.diffs)
        /\ (pc \in {"SelectRepository", "SwitchRepo"}) =>
            /\ (rejected' # rejected) => (pc' = pc /\ UNCHANGED <<config, repo, repo_path, new_path>>)
            /\ (pc' # pc) =>
                 \/ /\ pc' = (IF pc = "SelectRepository" THEN "SelectBackend" ELSE "WithNewRepo")
                    /\ (IF pc = "SelectRepository" THEN repo_path' ELSE new_path') \in GitRepos
                 \/ /\ pc' = "Returned"
                    /\ IsErr(ret') /\ ret'.val = <<"InputCancelled">>
                    /\ UNCHANGED <<config, repo>> ]_vars

C14_Witness ==
    /\ pc = "WithNewRepo"
    /\ rejected = {"bad"}
    /\ validated = {"r1", "r2"}
    /\ new_path = "r2" /\ repo = "r2"
    /\ config.repo_path = "r1"

(***************************************************************************)
(* The error of analyze_changes                                            *)
(***************************************************************************)
FilePaths(p) == { p.file_diffs[i].path : i \in DOMAIN p.file_diffs }

\* C15 as stated: when a backend call has failed, the error analyze_changes
\* returns names the file whose analysis failed.
C15_ErrorNamesFile ==
    (Returned(pipe) /\ Failing(pipe) # {})
    => /\ IsErr(pipe.result)
       /\ \E k \in DOMAIN pipe.result.val :
            pipe.result.val[k] = pipe.file_diffs[Min(Failing(pipe))].path

\* C15 as amended: when a backend call has failed, analyze_changes returns
\* the error of the backend for the first failing diff as the backend gave
\* it, and no path of a file is part of it.
C15_BackendErrorUnchanged ==
    (Returned(pipe) /\ Failing(pipe) # {})
    => LET k == Min(Failing(pipe))
       IN  /\ IsErr(pipe.result)
           /\ pipe.result.val =
                BackendCall(pipe.model, "analyze_file_changes", pipe.fut[k].req, "fail").val
           /\ \A j \in DOMAIN pipe.result.val : pipe.result.val[j] \notin FilePaths(pipe)

C15_Witness ==
    /\ Returned(pipe) /\ pipe.outcome = <<"ok", "fail", "ok">>
    /\ pipe.file_diffs[1].path = "a.txt"
    /\ pipe.file_diffs[2].path = "b.txt"
    /\ IsErr(pipe.result)
    /\ Len(calls) = 3

(***************************************************************************)
(* The end of run()                                                        *)
(***************************************************************************)
\* C16: once the operator has chosen "Exit", or run() has returned in any
\* other way, nothing happens any more: no prompt, no Config operation, no
\* backend call and no Repository::open.
C16_NothingAfterExit ==
    [][ (choice = 3 \/ pc = "Returned" \/ ret.tag # "None") => UNCHANGED vars ]_vars

C16_Witness ==
    /\ pc = "Returned"
    /\ choice = 3
    /\ ret = Ok(<<>>)
    /\ last_op = "with_new_model"
    /\ config.model = "m2"

(***************************************************************************)
(* The Config while a Mode executes                                        *)
(***************************************************************************)
SlotChanged(i) ==
    \/ pipe'.fut[i].st # pipe.fut[i].st
    \/ pipe'.fut[i].out.tag # pipe.fut[i].out.tag
    \/ pipe'.fut[i].out.val # pipe.fut[i].out.val
    \/ pipe'.fut[i].req # pipe.fut[i].req

\* C17: while a Mode executes neither the Config nor the repository handle
\* changes; the Config changes only where it is built or replaced, outside
\* Executing; every backend call of the executing Mode, and so every call
\* of one batch, goes to the backend of the Config; and a step of one
\* future of the batch changes the slot of that future only.
C17_ConfigFixedWhileExecuting ==
    [][ /\ (pc = "Executing") => UNCHANGED <<config, repo>>
        /\ (config' # config) => (pc \in {"SelectBackend", "WithNewModel", "WithNewRepo"})
        /\ (pc' = "Executing") =>
             /\ (pipe'.st # "idle") => (pipe'.model = config'.model)
             /\ \A k \in DOMAIN calls' : calls'[k].model = config'.model
        /\ (pc = "Executing" /\ pipe.st = "join" /\ pipe'.st = "join") =>
             /\ pipe'.model = pipe.model
             /\ pipe'.file_diffs = pipe.file_diffs
             /\ Cardinality({ i \in DOMAIN pipe.fut : SlotChanged(i) }) <= 1 ]_vars

C17_Witness ==
    /\ pc = "Executing" /\ pipe.st = "join"
    /\ last_op = "with_new_model" /\ config.model = "m2"
    /\ Len(pipe.file_diffs) = 3
    /\ Ready(pipe) = {2} /\ Pending(pipe) = {1, 3}
    /\ \A k \in 1..3 : calls[k].model = "m2"

(***************************************************************************)
(* Termination of analyze_changes                                          *)
(***************************************************************************)
\* C18: with a backend that answers every call analyze_changes always
\* returns; it returns only when every call it started has answered, so
\* with a call that never answers it never returns.
C18_ReturnsIffAllCallsAnswer ==
    /\ (pipe.st = "join") ~> Returned(pipe)
    /\ [](Returned(pipe2) => (Created(pipe2) = {} /\ Pending(pipe2) = {}))
    /\ \A i \in 1..(MaxFilesPair + 1) :
         (<>[](i \in Pending(pipe2))) => [](~Returned(pipe2))

C18_Witness ==
    /\ Returned(pipe) /\ Len(pipe.file_diffs) = 2
    /\ pipe.completed = <<2, 1>>
    /\ pipe2.st = "join"
    /\ Ready(pipe2) = {1} /\ Pending(pipe2) = {2}

(***************************************************************************)
(* The operations that delegate to the backend                             *)
(***************************************************************************)
OperationOf(m) == IF m = "commit" THEN "generate_commit_message" ELSE "analyze_contributor"

\* C19: generate_commit_message and analyze_contributor make one call, of
\* their own operation, with the text given, to the backend of the Config,
\* and return what that call answered; with_new_model makes the selected
\* backend the backend of the Config, and every backend call goes to the
\* backend the Config has at that time.
C19_DelegatesToActiveBackend ==
    [][ /\ (pc = "WithNewModel") => (config'.model = new_model)
        /\ (pc' = "Executing" /\ mode' \in {"commit", "contributor"}) =>
             IF op_result'.tag = "None"
             THEN calls' = <<>>
             ELSE /\ Len(calls') = 1
                  /\ calls'[1].model = config'.model
                  /\ calls'[1].op = OperationOf(mode')
                  /\ op_result' \in { BackendCall(config'.model, OperationOf(mode'),
                                                  calls'[1].text, o) : o \in Outcomes }
        /\ \A k \in DOMAIN calls' : calls'[k].model = config'.model ]_vars

C19_Witness ==
    /\ pc = "Executing" /\ mode = "commit"
    /\ last_op = "with_new_model" /\ config.model = "m2"
    /\ calls = <<Call("m2", "generate_commit_message", "+2")>>
    /\ op_result = Ok(<<"m2", "generate_commit_message", "+2">>)

(***************************************************************************)
(* The repository handle and the path of the Config                        *)
(***************************************************************************)
\* C20: whenever a mode is selected or executes, and at the menu after it,
\* the repository handle was opened from the path of the Config; a failed
\* or abandoned attempt to switch changes neither, and with_new_repo gives
\* the Config the path the new handle was opened from.
C20_HandleMatchesConfigPath ==
    [][ /\ (pc' \in {"Ready", "Executing", "PostAction", "SwitchModel", "WithNewModel",
                     "SwitchRepo"}) => (repo' = config'.repo_path)
        /\ (pc = "SwitchRepo" /\ pc' \in {"SwitchRepo", "Returned"}) => UNCHANGED <<config, repo>>
        /\ (pc = "WithNewRepo") => (repo' = repo /\ config'.repo_path = repo) ]_vars

C20_Witness ==
    /\ pc = "Executing" /\ mode = "changes" /\ pipe.st = "join"
    /\ last_op = "with_new_repo"
    /\ repo = "r2" /\ config.repo_path = "r2"
    /\ rejected = {"bad"} /\ validated = {"r1", "r2"}

====
